---- MODULE Spec2Model ----
(***************************************************************************)
(* Pseudo character device (pcd.c): one 512-byte buffer shared by every    *)
(* open file, and the llseek / read / write / open / release handlers of   *)
(* its file_operations.                                                    *)
(*                                                                         *)
(* Integer representation.  loff_t is a signed and size_t an unsigned      *)
(* 64-bit word.  A 64-bit word is represented here by its two's-complement *)
(* signed value v (the word is v mod 2^64), so the size_t 2^64 - k is the  *)
(* integer -k.  Addition and subtraction of words whose representatives    *)
(* are small is then ordinary integer arithmetic (the wrap modulo 2^64 is  *)
(* built into the representation), conversions between loff_t, size_t and  *)
(* ssize_t keep the representative, and only the comparisons depend on the *)
(* signedness of the C type: they are U64Gt / U64LeZero for size_t and the *)
(* ordinary < and > for loff_t.                                            *)
(***************************************************************************)
EXTENDS Integers, Sequences, FiniteSets, TLC

\* #define DEV_MEM_SIZE 512
DEV_MEM_SIZE == 512

\* errno values returned (negated) by the handlers
EINVAL == 22
ENOSPC == 28
EFAULT == 14

\* whence values of llseek
SEEK_SET == 0
SEEK_CUR == 1
SEEK_END == 2

\* number of handler calls explored from module load
MaxOps == 4

\* number of files (struct file) the file client may hold open at once
NumSessions == 2

Sessions == 1..NumSessions

Min(a, b) == IF a < b THEN a ELSE b
Max(a, b) == IF a > b THEN a ELSE b

\* a > b on unsigned 64-bit words given by their signed representatives
U64Gt(a, b) ==
    IF (a < 0) = (b < 0) THEN a > b ELSE a < 0

\* the test written as count < 0
U64LeZero_Below(a) == a < 0

\* count <= 0 on a size_t: an unsigned word is never below zero
U64LeZero(a) == a = 0

----------------------------------------------------------------------------
\* Inputs of the file client

\* offsets passed to llseek
Offsets == {0 - (DEV_MEM_SIZE + 1), 0 - 2, 0, 1, DEV_MEM_SIZE - 2,
            DEV_MEM_SIZE, DEV_MEM_SIZE + 1}

\* whence values passed to llseek: the three known modes and an unknown one
Whences == {SEEK_SET, SEEK_CUR, SEEK_END, SEEK_END + 1}

\* counts passed to read
ReadCounts == {0, 1, 5, DEV_MEM_SIZE, DEV_MEM_SIZE + 1}

\* number of bytes of the caller's destination buffer that are writable
\* (copy_to_user faults on the first byte past them)
UserRooms == {2, DEV_MEM_SIZE + 1}

\* a caller's source buffer of len readable bytes, none of them zero
Pattern(len) == [i \in 1..len |-> 1 + (i % 2)]

\* caller source buffers: every byte past the end of the sequence is unmapped
\* (copy_from_user faults on it)
UserBufs == {<<3>>, <<1, 2, 1, 1, 2>>, Pattern(DEV_MEM_SIZE)}

\* counts passed to write with a given source buffer: nothing, the whole
\* buffer, one byte more than the buffer holds
WriteCounts(ubuf) == {0, Len(ubuf), Len(ubuf) + 1}

\* values a byte read from outside device_buffer may have
Byte == {0, 7}

----------------------------------------------------------------------------
\* Module load and unload: pcd_driver_init and pcd_driver_cleanup

\* number of times the module is loaded (insmod) in a behaviour
MaxLoads == 2

\* the kernel calls of pcd_driver_init that register something, in the order
\* the function makes them
InitCalls == <<"alloc_chrdev_region", "cdev_add", "class_create",
               "device_create">>

\* what each registering call holds once it has succeeded, and the call
\* that gives it back
Registers(call) ==
    CASE call = "alloc_chrdev_region" -> "region"
      [] call = "cdev_add" -> "cdev"
      [] call = "class_create" -> "class"
      [] call = "device_create" -> "device"
      [] OTHER -> "nothing"

Unregisters(call) ==
    CASE call = "unregister_chrdev_region" -> "region"
      [] call = "cdev_del" -> "cdev"
      [] call = "class_destroy" -> "class"
      [] call = "device_destroy" -> "device"
      [] OTHER -> "nothing"

\* error codes a failing kernel call may return (-ENOMEM, -EBUSY)
KernelErrors == {0 - 12, 0 - 16}

\* major numbers alloc_chrdev_region may hand out
Majors == {240, 241}

\* the failure of device_create unwinds the class and the region but leaves
\* the cdev registered
pcd_driver_init_LeakCdev(failAt, err, major) ==
    IF failAt = 1
    THEN [ret |-> err, events |-> <<>>,
          device_number |-> 0, class_pcd |-> 0, device_pcd |-> 0]
    ELSE IF failAt = 2
    THEN [ret |-> err,
          events |-> <<"alloc_chrdev_region", "unregister_chrdev_region">>,
          device_number |-> major, class_pcd |-> 0, device_pcd |-> 0]
    ELSE IF failAt = 3
    THEN [ret |-> err,
          events |-> <<"alloc_chrdev_region", "cdev_add",
                       "cdev_del", "unregister_chrdev_region">>,
          device_number |-> major, class_pcd |-> err, device_pcd |-> 0]
    ELSE IF failAt = 4
    THEN [ret |-> err,
          events |-> <<"alloc_chrdev_region", "cdev_add", "class_create",
                       "class_destroy", "unregister_chrdev_region">>,
          device_number |-> major, class_pcd |-> 1, device_pcd |-> err]
    ELSE [ret |-> 0,
          events |-> <<"alloc_chrdev_region", "cdev_add", "class_create",
                       "device_create">>,
          device_number |-> major, class_pcd |-> 1, device_pcd |-> 1]

\* pcd_driver_init() when the registering call number failAt (1..4) fails
\* with err and the calls before it succeed (failAt = 0: none fails), and
\* alloc_chrdev_region hands out major: the value returned, the registering
\* and unregistering calls that took effect, in order, and the globals
pcd_driver_init(failAt, err, major) ==
    IF failAt = 1
    THEN [ret |-> err, events |-> <<>>,
          device_number |-> 0, class_pcd |-> 0, device_pcd |-> 0]
    ELSE IF failAt = 2
    THEN [ret |-> err,
          events |-> <<"alloc_chrdev_region", "unregister_chrdev_region">>,
          device_number |-> major, class_pcd |-> 0, device_pcd |-> 0]
    ELSE IF failAt = 3
    THEN [ret |-> err,
          events |-> <<"alloc_chrdev_region", "cdev_add",
                       "cdev_del", "unregister_chrdev_region">>,
          device_number |-> major, class_pcd |-> err, device_pcd |-> 0]
    ELSE IF failAt = 4
    THEN [ret |-> err,
          events |-> <<"alloc_chrdev_region", "cdev_add", "class_create",
                       "class_destroy", "cdev_del",
                       "unregister_chrdev_region">>,
          device_number |-> major, class_pcd |-> 1, device_pcd |-> err]
    ELSE [ret |-> 0,
          events |-> <<"alloc_chrdev_region", "cdev_add", "class_create",
                       "device_create">>,
          device_number |-> major, class_pcd |-> 1, device_pcd |-> 1]

\* the class destroyed before the device that belongs to it
pcd_driver_cleanup_ClassFirst(cls, dev) ==
    (IF cls # 0 THEN <<"class_destroy">> ELSE <<>>)
      \o (IF dev # 0 THEN <<"device_destroy">> ELSE <<>>)
      \o <<"cdev_del", "unregister_chrdev_region">>

\* pcd_driver_cleanup() with class_pcd = cls and device_pcd = dev: the
\* unregistering calls it makes, in order
pcd_driver_cleanup(cls, dev) ==
    (IF dev # 0 THEN <<"device_destroy">> ELSE <<>>)
      \o (IF cls # 0 THEN <<"class_destroy">> ELSE <<>>)
      \o <<"cdev_del", "unregister_chrdev_region">>

----------------------------------------------------------------------------
VARIABLES
    device_buffer,  \* char device_buffer[DEV_MEM_SIZE] as a sequence: the C
                    \* element device_buffer[i] is the (i+1)-th of the sequence
    f_pos,          \* filp->f_pos of every open file (domain: the open files)
    atEnd,          \* per open file: its last call was llseek(0, SEEK_END)
    lastWrite,      \* the last write call that reached copy_from_user
    last,           \* the last handler call: arguments, result, bytes moved
    nops,           \* handler calls made so far
    device_number,  \* dev_t device_number (its major; 0 before allocation)
    class_pcd,      \* struct class *class_pcd
    device_pcd,     \* struct device *device_pcd
    mod_state,      \* "unloaded", "failed" (init returned an error),
                    \* "loaded" or "removed" (cleanup has run)
    init_call,      \* the last pcd_driver_init: failing call, error, result,
                    \* and the length of events when it began
    events,         \* the kernel's record: registering and unregistering
                    \* calls that have taken effect since boot, in order
    loads,          \* number of loads so far
    copying         \* per open file with a read or write inside its
                    \* copy_to_user / copy_from_user: the call and the bytes
                    \* moved so far

driver == <<device_number, class_pcd, device_pcd, mod_state, init_call,
            events, loads>>

vars ==
    <<device_buffer, f_pos, atEnd, lastWrite, last, nops, driver, copying>>

NoCall ==
    [op |-> "none", sess |-> 0, pos |-> 0, off |-> 0, whence |-> 0,
     count |-> 0, n |-> 0, uncopied |-> 0, room |-> 0, ubuf |-> <<>>,
     out |-> <<>>, ret |-> 0, afterEnd |-> FALSE]

\* a freshly loaded module image: the buffer zeroed, no file open
InitFiles ==
    /\ device_buffer = [i \in 1..DEV_MEM_SIZE |-> 0]
    /\ f_pos = << >>
    /\ atEnd = << >>
    /\ lastWrite = NoCall
    /\ last = NoCall
    /\ nops = 0
    /\ copying = << >>

\* the module as pcd_driver_init leaves it when every call succeeds
InitLoaded ==
    LET major == CHOOSE m \in Majors : TRUE
        r == pcd_driver_init(0, 0, major)
    IN
    /\ device_number = r.device_number
    /\ class_pcd = r.class_pcd
    /\ device_pcd = r.device_pcd
    /\ mod_state = "loaded"
    /\ init_call = [failAt |-> 0, err |-> 0, major |-> major, ret |-> r.ret,
                    start |-> 0]
    /\ events = r.events
    /\ loads = 1

\* the file client starts with the module loaded
Init == InitFiles /\ InitLoaded

----------------------------------------------------------------------------
\* The handlers, as functions of the state they read and of their arguments

\* SEEK_END taken to be the last valid index instead of the size
SeekTarget_EndAtLastIndex(pos, off, whence) ==
    IF whence = SEEK_SET THEN off
    ELSE IF whence = SEEK_CUR THEN pos + off
    ELSE (DEV_MEM_SIZE - 1) + off

\* pcd_lseek: the candidate position for a known whence
SeekTarget(pos, off, whence) ==
    IF whence = SEEK_SET THEN off
    ELSE IF whence = SEEK_CUR THEN pos + off
    ELSE DEV_MEM_SIZE + off

\* the test for a negative candidate left out
SeekOutOfBounds_NoLower(temp_f_pos) ==
    temp_f_pos > DEV_MEM_SIZE

\* the upper test written with >= instead of >
SeekOutOfBounds_Strict(temp_f_pos) ==
    temp_f_pos < 0 \/ temp_f_pos >= DEV_MEM_SIZE

\* pcd_lseek: the bounds test on the candidate (signed loff_t comparison)
SeekOutOfBounds(temp_f_pos) ==
    temp_f_pos < 0 \/ temp_f_pos > DEV_MEM_SIZE

\* filp->f_pos assigned before the candidate is validated
pcd_lseek_AssignFirst(pos, off, whence) ==
    IF whence \notin {SEEK_SET, SEEK_CUR, SEEK_END}
    THEN [ret |-> 0 - EINVAL, f_pos |-> pos]
    ELSE LET temp_f_pos == SeekTarget(pos, off, whence) IN
         IF SeekOutOfBounds(temp_f_pos)
         THEN [ret |-> 0 - EINVAL, f_pos |-> temp_f_pos]
         ELSE [ret |-> temp_f_pos, f_pos |-> temp_f_pos]

\* pcd_lseek(filp, off, whence) with filp->f_pos = pos: the value returned
\* and the value of filp->f_pos afterwards
pcd_lseek(pos, off, whence) ==
    IF whence \notin {SEEK_SET, SEEK_CUR, SEEK_END}
    THEN [ret |-> 0 - EINVAL, f_pos |-> pos]
    ELSE LET temp_f_pos == SeekTarget(pos, off, whence) IN
         IF SeekOutOfBounds(temp_f_pos)
         THEN [ret |-> 0 - EINVAL, f_pos |-> pos]
         ELSE [ret |-> temp_f_pos, f_pos |-> temp_f_pos]

\* the truncation of count left out
ReadCount_NoClamp(pos, count) == count

\* pcd_read: count after "if ((*f_pos + count) > DEV_MEM_SIZE) count = ..."
\* (the sum and the comparison are unsigned 64-bit)
ReadCount(pos, count) ==
    IF U64Gt(pos + count, DEV_MEM_SIZE) THEN DEV_MEM_SIZE - pos ELSE count

\* the truncation of count left out
WriteCount_NoClamp(pos, count) == count

\* pcd_write: the same truncation of count
WriteCount(pos, count) ==
    IF U64Gt(pos + count, DEV_MEM_SIZE) THEN DEV_MEM_SIZE - pos ELSE count

\* k bytes of value v
Fill(k, v) == [i \in 1..k |-> v]

\* the C elements buf[lo] .. buf[hi - 1] of the array, for 0 <= lo and
\* hi <= DEV_MEM_SIZE
Slice(buf, lo, hi) == IF hi > lo THEN SubSeq(buf, lo + 1, hi) ELSE <<>>

\* the copy starts one element too far, at &device_buffer[pos + 1]
copy_to_user_FromNext(buf, pos, n, room, junk) ==
    LET done == IF n < 0 THEN 0 ELSE Min(n, room)
        from == pos + 1
        before == Min(done, Max(0, 0 - from))
        inside == Slice(buf, Max(from, 0), Min(from + done, DEV_MEM_SIZE))
    IN
    [uncopied |-> n - done,
     out |-> Fill(before, junk) \o inside
               \o Fill(done - before - Len(inside), junk)]

\* copy_to_user(buff, &device_buffer[pos], n) into a destination with room
\* writable bytes: the number of bytes not copied and the bytes delivered.
\* A size above INT_MAX (here: a negative representative) is refused whole.
\* A byte fetched from outside the array is whatever the neighbouring memory
\* holds (junk).
copy_to_user(buf, pos, n, room, junk) ==
    LET done == IF n < 0 THEN 0 ELSE Min(n, room)
        before == Min(done, Max(0, 0 - pos))
        inside == Slice(buf, Max(pos, 0), Min(pos + done, DEV_MEM_SIZE))
    IN
    [uncopied |-> n - done,
     out |-> Fill(before, junk) \o inside
               \o Fill(done - before - Len(inside), junk)]

\* copy_from_user(&device_buffer[pos], buff, n) from a source of Len(ubuf)
\* readable bytes: the number of bytes not copied and the buffer afterwards.
\* The bytes that could not be fetched are zeroed in the destination; bytes
\* that fall outside the array do not land in it.
copy_from_user(buf, pos, ubuf, n) ==
    LET done == IF n < 0 THEN 0 ELSE Min(n, Len(ubuf))
        span == IF n < 0 THEN 0 ELSE n
        data == SubSeq(ubuf, 1, done) \o Fill(span - done, 0)
        lo == Max(pos, 0)
        hi == Min(pos + span, DEV_MEM_SIZE)
    IN
    [uncopied |-> n - done,
     buf |-> IF hi > lo
             THEN Slice(buf, 0, lo) \o SubSeq(data, lo - pos + 1, hi - pos)
                    \o Slice(buf, hi, DEV_MEM_SIZE)
             ELSE buf]

\* "*f_pos += count" left out
pcd_read_NoAdvance(buf, pos, count, room, junk) ==
    LET n == ReadCount(pos, count) IN
    IF U64LeZero(n)
    THEN [ret |-> 0, f_pos |-> pos, n |-> n, uncopied |-> 0, out |-> <<>>]
    ELSE LET c == copy_to_user(buf, pos, n, room, junk) IN
         IF c.uncopied # 0
         THEN [ret |-> 0 - EFAULT, f_pos |-> pos, n |-> n,
               uncopied |-> c.uncopied, out |-> c.out]
         ELSE [ret |-> n, f_pos |-> pos, n |-> n,
               uncopied |-> 0, out |-> c.out]

\* pcd_read(filp, buff, count, f_pos) with *f_pos = pos
pcd_read(buf, pos, count, room, junk) ==
    LET n == ReadCount(pos, count) IN
    IF U64LeZero(n)
    THEN [ret |-> 0, f_pos |-> pos, n |-> n, uncopied |-> 0, out |-> <<>>]
    ELSE LET c == copy_to_user(buf, pos, n, room, junk) IN
         IF c.uncopied # 0
         THEN [ret |-> 0 - EFAULT, f_pos |-> pos, n |-> n,
               uncopied |-> c.uncopied, out |-> c.out]
         ELSE [ret |-> n, f_pos |-> pos + n, n |-> n,
               uncopied |-> 0, out |-> c.out]

\* no room reported the way pcd_read reports it, as a count of 0
pcd_write_ZeroAtEnd(buf, pos, ubuf, count) ==
    LET n == WriteCount(pos, count) IN
    IF U64LeZero(n)
    THEN [ret |-> 0, f_pos |-> pos, n |-> n, uncopied |-> 0, buf |-> buf]
    ELSE LET c == copy_from_user(buf, pos, ubuf, n) IN
         IF c.uncopied # 0
         THEN [ret |-> 0 - EFAULT, f_pos |-> pos, n |-> n,
               uncopied |-> c.uncopied, buf |-> c.buf]
         ELSE [ret |-> n, f_pos |-> pos + n, n |-> n, uncopied |-> 0,
               buf |-> c.buf]

\* the position advanced by the bytes that were copied before the fault
pcd_write_AdvancePartial(buf, pos, ubuf, count) ==
    LET n == WriteCount(pos, count) IN
    IF U64LeZero(n)
    THEN [ret |-> 0 - ENOSPC, f_pos |-> pos, n |-> n, uncopied |-> 0,
          buf |-> buf]
    ELSE LET c == copy_from_user(buf, pos, ubuf, n) IN
         IF c.uncopied # 0
         THEN [ret |-> 0 - EFAULT, f_pos |-> pos + (n - c.uncopied), n |-> n,
               uncopied |-> c.uncopied, buf |-> c.buf]
         ELSE [ret |-> n, f_pos |-> pos + n, n |-> n, uncopied |-> 0,
               buf |-> c.buf]

\* pcd_write(filp, buff, count, f_pos) with *f_pos = pos
pcd_write(buf, pos, ubuf, count) ==
    LET n == WriteCount(pos, count) IN
    IF U64LeZero(n)
    THEN [ret |-> 0 - ENOSPC, f_pos |-> pos, n |-> n, uncopied |-> 0,
          buf |-> buf]
    ELSE LET c == copy_from_user(buf, pos, ubuf, n) IN
         IF c.uncopied # 0
         THEN [ret |-> 0 - EFAULT, f_pos |-> pos, n |-> n,
               uncopied |-> c.uncopied, buf |-> c.buf]
         ELSE [ret |-> n, f_pos |-> pos + n, n |-> n, uncopied |-> 0,
               buf |-> c.buf]

\* the open refused
pcd_open_Refused == 0 - EINVAL

\* pcd_open(inode, filp): the value returned
pcd_open == 0

\* pcd_release(inode, filp): the value returned
pcd_release == 0

----------------------------------------------------------------------------
\* The file client's calls

Open == DOMAIN f_pos

\* a byte of memory outside device_buffer is read only when the copy runs
\* past the array
Junk(pos, n) ==
    IF pos >= 0 /\ pos + n <= DEV_MEM_SIZE THEN {0} ELSE Byte

\* open(): the file arrives with f_pos zeroed; it stays open only when
\* pcd_open returns 0
OpenFile(s) ==
    /\ nops < MaxOps
    /\ s \notin Open
    /\ LET ret == pcd_open IN
       /\ f_pos' = IF ret = 0
                   THEN [t \in Open \cup {s} |-> IF t = s THEN 0 ELSE f_pos[t]]
                   ELSE f_pos
       /\ atEnd' = IF ret = 0
                   THEN [t \in Open \cup {s} |-> IF t = s THEN FALSE ELSE atEnd[t]]
                   ELSE atEnd
       /\ last' = [NoCall EXCEPT !.op = "open", !.sess = s, !.ret = ret]
    /\ nops' = nops + 1
    /\ UNCHANGED <<device_buffer, lastWrite, driver, copying>>

\* the buffer cleared when a file is closed
Release_ClearsBuffer(s) ==
    /\ nops < MaxOps
    /\ s \in Open
    /\ f_pos' = [t \in Open \ {s} |-> f_pos[t]]
    /\ atEnd' = [t \in Open \ {s} |-> atEnd[t]]
    /\ last' = [NoCall EXCEPT !.op = "release", !.sess = s,
                              !.pos = f_pos[s], !.ret = pcd_release]
    /\ nops' = nops + 1
    /\ device_buffer' = [i \in 1..DEV_MEM_SIZE |-> 0]
    /\ UNCHANGED <<lastWrite, driver, copying>>

\* close(): the file and its position are gone whatever pcd_release returns
Release(s) ==
    /\ nops < MaxOps
    /\ s \in Open
    /\ f_pos' = [t \in Open \ {s} |-> f_pos[t]]
    /\ atEnd' = [t \in Open \ {s} |-> atEnd[t]]
    /\ last' = [NoCall EXCEPT !.op = "release", !.sess = s,
                              !.pos = f_pos[s], !.ret = pcd_release]
    /\ nops' = nops + 1
    /\ UNCHANGED <<device_buffer, lastWrite, driver, copying>>

\* the position kept in one place for all open files
Lseek_SharedPosition(s, off, whence) ==
    /\ nops < MaxOps
    /\ s \in Open
    /\ LET r == pcd_lseek(f_pos[s], off, whence) IN
       /\ f_pos' = [t \in Open |-> r.f_pos]
       /\ last' = [NoCall EXCEPT !.op = "lseek", !.sess = s,
                                 !.pos = f_pos[s], !.off = off,
                                 !.whence = whence, !.ret = r.ret,
                                 !.afterEnd = atEnd[s]]
    /\ atEnd' = [atEnd EXCEPT ![s] = (whence = SEEK_END /\ off = 0)]
    /\ nops' = nops + 1
    /\ UNCHANGED <<device_buffer, lastWrite, driver, copying>>

\* llseek()
Lseek(s, off, whence) ==
    /\ nops < MaxOps
    /\ s \in Open
    /\ LET r == pcd_lseek(f_pos[s], off, whence) IN
       /\ f_pos' = [f_pos EXCEPT ![s] = r.f_pos]
       /\ last' = [NoCall EXCEPT !.op = "lseek", !.sess = s,
                                 !.pos = f_pos[s], !.off = off,
                                 !.whence = whence, !.ret = r.ret,
                                 !.afterEnd = atEnd[s]]
    /\ atEnd' = [atEnd EXCEPT ![s] = (whence = SEEK_END /\ off = 0)]
    /\ nops' = nops + 1
    /\ UNCHANGED <<device_buffer, lastWrite, driver, copying>>

Read(s, count, room) ==
    /\ nops < MaxOps
    /\ s \in Open
    /\ \E junk \in Junk(f_pos[s], ReadCount(f_pos[s], count)) :
       \E r \in {pcd_read(device_buffer, f_pos[s], count, room, junk)} :
         /\ f_pos' = [f_pos EXCEPT ![s] = r.f_pos]
         /\ last' = [NoCall EXCEPT !.op = "read", !.sess = s,
                                   !.pos = f_pos[s], !.count = count,
                                   !.room = room, !.n = r.n,
                                   !.uncopied = r.uncopied, !.out = r.out,
                                   !.ret = r.ret, !.afterEnd = atEnd[s]]
    /\ atEnd' = [atEnd EXCEPT ![s] = FALSE]
    /\ nops' = nops + 1
    /\ UNCHANGED <<device_buffer, lastWrite, driver, copying>>

Write(s, ubuf, count) ==
    /\ nops < MaxOps
    /\ s \in Open
    /\ \E r \in {pcd_write(device_buffer, f_pos[s], ubuf, count)} :
       LET call == [NoCall EXCEPT !.op = "write", !.sess = s,
                                  !.pos = f_pos[s], !.count = count,
                                  !.ubuf = ubuf, !.n = r.n,
                                  !.uncopied = r.uncopied, !.ret = r.ret,
                                  !.afterEnd = atEnd[s]]
       IN
       /\ device_buffer' = r.buf
       /\ f_pos' = [f_pos EXCEPT ![s] = r.f_pos]
       /\ last' = call
       /\ lastWrite' = IF U64LeZero(r.n) THEN lastWrite ELSE call
    /\ atEnd' = [atEnd EXCEPT ![s] = FALSE]
    /\ nops' = nops + 1
    /\ UNCHANGED <<driver, copying>>

Next ==
    \/ \E s \in Sessions : OpenFile(s)
    \/ \E s \in Sessions : Release(s)
    \/ \E s \in Sessions, off \in Offsets, whence \in Whences :
         Lseek(s, off, whence)
    \/ \E s \in Sessions, count \in ReadCounts, room \in UserRooms :
         Read(s, count, room)
    \/ \E s \in Sessions, ubuf \in UserBufs :
         \E count \in WriteCounts(ubuf) : Write(s, ubuf, count)

Spec == Init /\ [][Next]_vars

\* offsets a caller passes to a positioned read (pread): any offset >= 0
PreadOffsets == {0, DEV_MEM_SIZE - 2, DEV_MEM_SIZE, DEV_MEM_SIZE + 1,
                 DEV_MEM_SIZE + 88}

\* pread(): pcd_read called with f_pos pointing at the caller's offset; the
\* file's own position is neither read nor written
Pread(s, pos, count, room) ==
    /\ nops < MaxOps
    /\ s \in Open
    /\ \E junk \in Junk(pos, ReadCount(pos, count)) :
       \E r \in {pcd_read(device_buffer, pos, count, room, junk)} :
         last' = [NoCall EXCEPT !.op = "pread", !.sess = s,
                                !.pos = pos, !.count = count,
                                !.room = room, !.n = r.n,
                                !.uncopied = r.uncopied, !.out = r.out,
                                !.ret = r.ret, !.afterEnd = atEnd[s]]
    /\ atEnd' = [atEnd EXCEPT ![s] = FALSE]
    /\ nops' = nops + 1
    /\ UNCHANGED <<device_buffer, f_pos, lastWrite, driver, copying>>

NextPread ==
    \/ Next
    \/ \E s \in Sessions, pos \in PreadOffsets, count \in ReadCounts,
          room \in UserRooms : Pread(s, pos, count, room)

\* the file client with positioned reads
SpecPread == Init /\ [][NextPread]_vars

\* counts at the top of the size_t range: 2^64 - 1, 2^64 - DEV_MEM_SIZE and
\* 2^64 - (DEV_MEM_SIZE + 1)
SizeTCounts == {0 - 1, 0 - DEV_MEM_SIZE, 0 - (DEV_MEM_SIZE + 1)}

NextSizeT ==
    \/ Next
    \/ \E s \in Sessions, count \in SizeTCounts, room \in UserRooms :
         Read(s, count, room)
    \/ \E s \in Sessions, ubuf \in UserBufs, count \in SizeTCounts :
         Write(s, ubuf, count)

\* the handlers called with any count their size_t parameter can hold
SpecSizeT == Init /\ [][NextSizeT]_vars

\* the module before its first load
InitUnloaded ==
    /\ device_number = 0
    /\ class_pcd = 0
    /\ device_pcd = 0
    /\ mod_state = "unloaded"
    /\ init_call = [failAt |-> 0, err |-> 0, major |-> 0, ret |-> 0,
                    start |-> 0]
    /\ events = <<>>
    /\ loads = 0

\* insmod: module_init(pcd_driver_init); the module stays only when it
\* returns 0
DriverInit(failAt, err, major) ==
    /\ mod_state # "loaded"
    /\ loads < MaxLoads
    /\ \E r \in {pcd_driver_init(failAt, err, major)} :
         /\ device_number' = r.device_number
         /\ class_pcd' = r.class_pcd
         /\ device_pcd' = r.device_pcd
         /\ mod_state' = IF r.ret = 0 THEN "loaded" ELSE "failed"
         /\ init_call' = [failAt |-> failAt, err |-> err, major |-> major,
                          ret |-> r.ret, start |-> Len(events)]
         /\ events' = events \o r.events
    /\ loads' = loads + 1
    /\ UNCHANGED <<device_buffer, f_pos, atEnd, lastWrite, last, nops, copying>>

\* rmmod: module_exit(pcd_driver_cleanup), possible while no file is open
DriverCleanup ==
    /\ mod_state = "loaded"
    /\ Open = {}
    /\ events' = events \o pcd_driver_cleanup(class_pcd, device_pcd)
    /\ mod_state' = "removed"
    /\ UNCHANGED <<device_number, class_pcd, device_pcd, init_call, loads>>
    /\ UNCHANGED <<device_buffer, f_pos, atEnd, lastWrite, last, nops, copying>>

NextLife ==
    \/ \E major \in Majors : DriverInit(0, 0, major)
    \/ \E failAt \in 1..Len(InitCalls), err \in KernelErrors,
          major \in Majors : DriverInit(failAt, err, major)
    \/ DriverCleanup

\* a module image that has not been loaded yet
InitLife == InitFiles /\ InitUnloaded

\* loading and unloading the module
SpecLife == InitLife /\ [][NextLife]_vars

\* Calls on different open files running at once.  pcd_read and pcd_write
\* take no lock, so between any two bytes that copy_to_user or
\* copy_from_user moves, a call on another file may run.

\* counts and sources of the calls that run at once
RaceReadCounts == {0, 1, 5}

RaceBufs == {<<3>>, <<1, 2, 1, 1, 2>>}

\* the C element buf[i]
ByteAt(buf, i, junk) ==
    IF 0 <= i /\ i < DEV_MEM_SIZE THEN buf[i + 1] ELSE junk

\* the byte lands one element further on
StoreAt_Neighbour(buf, i, v) ==
    IF 0 <= i + 1 /\ i + 1 < DEV_MEM_SIZE
    THEN [buf EXCEPT ![i + 2] = v]
    ELSE buf

\* buf after the assignment buf[i] = v
StoreAt(buf, i, v) ==
    IF 0 <= i /\ i < DEV_MEM_SIZE THEN [buf EXCEPT ![i + 1] = v] ELSE buf

\* the call c in flight covers the C element i
Covers(c, i) == c.pos <= i /\ i < c.pos + c.n

\* the bytes copy_from_user puts into the n elements of a write: the readable
\* bytes of the source, then zeroes for those it could not fetch
WriteData(ubuf, n) ==
    [k \in 1..n |-> IF k <= Len(ubuf) THEN ubuf[k] ELSE 0]

\* read(): pcd_read up to its copy_to_user; a call that returns before the
\* copy is the whole of Read
BeginRead(s, count, room) ==
    /\ s \in Open
    /\ s \notin DOMAIN copying
    /\ IF U64LeZero(ReadCount(f_pos[s], count))
       THEN Read(s, count, room)
       ELSE /\ nops < MaxOps
            /\ copying' =
                 [t \in DOMAIN copying \cup {s} |->
                    IF t = s
                    THEN [op |-> "read", pos |-> f_pos[s], count |-> count,
                          n |-> ReadCount(f_pos[s], count),
                          steps |-> Min(ReadCount(f_pos[s], count), room),
                          room |-> room, ubuf |-> <<>>, i |-> 0,
                          out |-> <<>>, raced |-> FALSE]
                    ELSE copying[t]]
            /\ nops' = nops + 1
            /\ UNCHANGED <<device_buffer, f_pos, atEnd, lastWrite, last,
                           driver>>

\* write(): pcd_write up to its copy_from_user
BeginWrite(s, ubuf, count) ==
    /\ s \in Open
    /\ s \notin DOMAIN copying
    /\ IF U64LeZero(WriteCount(f_pos[s], count))
       THEN Write(s, ubuf, count)
       ELSE /\ nops < MaxOps
            /\ copying' =
                 [t \in DOMAIN copying \cup {s} |->
                    IF t = s
                    THEN [op |-> "write", pos |-> f_pos[s], count |-> count,
                          n |-> WriteCount(f_pos[s], count),
                          steps |-> WriteCount(f_pos[s], count),
                          room |-> 0, ubuf |-> ubuf, i |-> 0,
                          out |-> <<>>, raced |-> FALSE]
                    ELSE copying[t]]
            /\ nops' = nops + 1
            /\ UNCHANGED <<device_buffer, f_pos, atEnd, lastWrite, last,
                           driver>>

\* one byte of a copy in flight.  A store marks every other call in flight
\* whose range holds the element stored to.
CopyByte(s) ==
    /\ s \in DOMAIN copying
    /\ copying[s].i < copying[s].steps
    /\ LET c == copying[s]
           at == c.pos + c.i
       IN
       IF c.op = "read"
       THEN /\ \E junk \in Junk(at, 1) :
                 copying' =
                   [copying EXCEPT
                      ![s] = [c EXCEPT
                                !.i = c.i + 1,
                                !.out = Append(c.out,
                                          ByteAt(device_buffer, at, junk))]]
            /\ UNCHANGED device_buffer
       ELSE /\ device_buffer' =
                 StoreAt(device_buffer, at, WriteData(c.ubuf, c.n)[c.i + 1])
            /\ copying' =
                 [t \in DOMAIN copying |->
                    IF t = s
                    THEN [c EXCEPT !.i = c.i + 1]
                    ELSE IF Covers(copying[t], at)
                    THEN [copying[t] EXCEPT !.raced = TRUE]
                    ELSE copying[t]]
    /\ UNCHANGED <<f_pos, atEnd, lastWrite, last, nops, driver>>

\* the rest of pcd_read or pcd_write once its copy has stopped: -EFAULT when
\* bytes were left uncopied, else the position advanced and the count returned
FinishCopy(s) ==
    /\ s \in DOMAIN copying
    /\ copying[s].i = copying[s].steps
    /\ LET c == copying[s]
           uncopied == IF c.op = "read"
                       THEN c.n - c.steps
                       ELSE c.n - Min(c.n, Len(c.ubuf))
           ret == IF uncopied # 0 THEN 0 - EFAULT ELSE c.n
           call == [NoCall EXCEPT !.op = c.op, !.sess = s, !.pos = c.pos,
                                  !.count = c.count, !.room = c.room,
                                  !.ubuf = c.ubuf, !.n = c.n,
                                  !.uncopied = uncopied, !.out = c.out,
                                  !.ret = ret, !.afterEnd = atEnd[s]]
       IN
       /\ f_pos' = [f_pos EXCEPT
                      ![s] = IF uncopied # 0 THEN c.pos ELSE c.pos + c.n]
       /\ last' = call
       /\ lastWrite' = IF c.op = "write" THEN call ELSE lastWrite
    /\ atEnd' = [atEnd EXCEPT ![s] = FALSE]
    /\ copying' = [t \in DOMAIN copying \ {s} |-> copying[t]]
    /\ UNCHANGED <<device_buffer, nops, driver>>

NextRace ==
    \/ \E s \in Sessions : OpenFile(s)
    \/ \E s \in Sessions, count \in RaceReadCounts, room \in UserRooms :
         BeginRead(s, count, room)
    \/ \E s \in Sessions, ubuf \in RaceBufs :
         \E count \in WriteCounts(ubuf) : BeginWrite(s, ubuf, count)
    \/ \E s \in Sessions : CopyByte(s)
    \/ \E s \in Sessions : FinishCopy(s)

\* reads and writes on different open files interleaved byte by byte
SpecRace == Init /\ [][NextRace]_vars

TypeOK ==
    /\ Len(device_buffer) = DEV_MEM_SIZE
    /\ Open \subseteq Sessions
    /\ nops \in 0..MaxOps

----------------------------------------------------------------------------
\* Properties

\* the session a call was made on is still open
Live(c) == c.sess \in Open

\* min(c, capacity - p): the count the bounds arithmetic should produce
Effective(p, c) == Min(c, DEV_MEM_SIZE - p)

\* the number of elements of device_buffer a read or write call touched,
\* starting at element c.pos: the bytes fetched by a read, the bytes stored
\* or zeroed by a write (none when the copy was refused whole)
TouchedLen(c) ==
    IF c.n <= 0 THEN 0
    ELSE IF c.op = "read" THEN c.n - c.uncopied
    ELSE c.n

\* C1: after any sequence of open, read, write, seek and close calls,
\* succeeding or failing, on any of the sessions, the position of every
\* open session lies in 0..DEV_MEM_SIZE.
C1_PositionInBounds ==
    \A s \in Open : 0 <= f_pos[s] /\ f_pos[s] <= DEV_MEM_SIZE

\* a truncated write has carried a session's position right up to the
\* capacity while the other session sits at another position
C1_Witness ==
    /\ last.op = "write"
    /\ last.count > last.n
    /\ last.ret = last.n
    /\ f_pos[last.sess] = DEV_MEM_SIZE
    /\ \E t \in Open : f_pos[t] # DEV_MEM_SIZE

\* C2: every element of device_buffer touched by the copy of a read or a
\* write has its index in 0..DEV_MEM_SIZE-1, whatever count was requested.
C2_CopyInsideBuffer ==
    (last.op \in {"read", "write"} /\ TouchedLen(last) > 0)
        => /\ last.pos >= 0
           /\ last.pos + TouchedLen(last) <= DEV_MEM_SIZE

\* a read asking for more than is left was truncated and touched the last
\* element of the array
C2_Witness ==
    /\ last.op = "read"
    /\ last.pos > 0
    /\ last.count > DEV_MEM_SIZE - last.pos
    /\ TouchedLen(last) > 0
    /\ last.pos + TouchedLen(last) = DEV_MEM_SIZE

\* C3: a read of count c at position p in 0..DEV_MEM_SIZE, into a caller
\* buffer that can take the bytes, returns n = min(c, DEV_MEM_SIZE - p), hands
\* over exactly the n bytes device_buffer[p .. p+n) and advances the
\* position by n; n = 0 is a success with count 0.  The only error a read
\* returns is -EFAULT, and only when the caller's buffer cannot take n bytes.
C3_ReadResult ==
    (last.op = "read" /\ 0 <= last.pos /\ last.pos <= DEV_MEM_SIZE)
        => LET n == Effective(last.pos, last.count) IN
           /\ last.ret \in {n, 0 - EFAULT}
           /\ last.ret = 0 - EFAULT => last.room < n
           /\ last.room >= n =>
                /\ last.ret = n
                /\ Len(last.out) = n
                /\ last.out = Slice(device_buffer, last.pos, last.pos + n)
                /\ Live(last) /\ f_pos[last.sess] = last.pos + n

\* a short read: fewer bytes than asked for, not all of them zero
C3_Witness ==
    /\ last.op = "read"
    /\ last.ret > 0
    /\ last.ret < last.count
    /\ last.ret = DEV_MEM_SIZE - last.pos
    /\ \E i \in 1..Len(last.out) : last.out[i] # 0

C4_Step ==
    (last'.op = "write" /\ 0 <= last'.pos /\ last'.pos <= DEV_MEM_SIZE
        /\ last'.count <= Len(last'.ubuf))
        => LET n == Effective(last'.pos, last'.count) IN
           /\ n > 0 => /\ last'.ret = n
                       /\ f_pos'[last'.sess] = last'.pos + n
           /\ n <= 0 => /\ last'.ret = 0 - ENOSPC
                        /\ f_pos'[last'.sess] = last'.pos
                        /\ device_buffer' = device_buffer

\* C4: a write at position p in 0..DEV_MEM_SIZE of data holding the c bytes
\* asked for returns min(c, DEV_MEM_SIZE - p) and advances the position by
\* it when it is > 0; otherwise it returns -ENOSPC and leaves the position
\* and device_buffer as they were.
C4_WriteResult == [][C4_Step]_vars

\* a write at the end of a buffer that already holds data was refused
C4_Witness ==
    /\ last.op = "write"
    /\ last.count > 0
    /\ last.count <= Len(last.ubuf)
    /\ last.pos = DEV_MEM_SIZE
    /\ last.ret = 0 - ENOSPC
    /\ \E i \in 1..DEV_MEM_SIZE : device_buffer[i] # 0

C5_Step ==
    (last'.op = "write" /\ last'.ret > 0)
        => LET p == last'.pos
               n == Effective(p, last'.count)
           IN
           /\ last'.ret = n
           /\ Slice(device_buffer', p, p + n) = SubSeq(last'.ubuf, 1, n)
           /\ Slice(device_buffer', 0, p) = Slice(device_buffer, 0, p)
           /\ Slice(device_buffer', p + n, DEV_MEM_SIZE)
                = Slice(device_buffer, p + n, DEV_MEM_SIZE)
           /\ Len(device_buffer') = DEV_MEM_SIZE

\* C5: a successful write of n = min(count, DEV_MEM_SIZE - p) bytes at
\* position p sets device_buffer[p .. p+n) to the first n bytes of the source
\* and leaves every other element as it was; the rest of the source is
\* dropped.
C5_WriteFrame == [][C5_Step]_vars

\* the 5-byte write at position DEV_MEM_SIZE - 2 over earlier data: 2 is
\* returned, the last two elements hold the first two source bytes, the
\* element before them keeps the earlier data
C5_Witness ==
    /\ last.op = "write"
    /\ last.pos = DEV_MEM_SIZE - 2
    /\ last.ubuf = <<1, 2, 1, 1, 2>>
    /\ last.count = 5
    /\ last.ret = 2
    /\ Slice(device_buffer, DEV_MEM_SIZE - 2, DEV_MEM_SIZE) = <<1, 2>>
    /\ device_buffer[DEV_MEM_SIZE - 2] # 0
    /\ f_pos[last.sess] = DEV_MEM_SIZE

\* the last call is a read of as many bytes as the most recent write that
\* reached the buffer stored: that write put the whole of its source B
\* (1 <= Len(B) <= DEV_MEM_SIZE) at position 0, no write has touched the
\* buffer since, and the read is at position 0 into a buffer that can take B
RoundTrip ==
    /\ last.op = "read"
    /\ last.pos = 0
    /\ lastWrite.op = "write"
    /\ lastWrite.pos = 0
    /\ lastWrite.count = Len(lastWrite.ubuf)
    /\ Len(lastWrite.ubuf) >= 1
    /\ Len(lastWrite.ubuf) <= DEV_MEM_SIZE
    /\ last.count = Len(lastWrite.ubuf)
    /\ last.room >= last.count

\* C6: writing B (1 <= Len(B) <= DEV_MEM_SIZE) at position 0 and then, with
\* no write in between, reading Len(B) bytes at position 0 through the same
\* or through another session returns exactly B.
C6_RoundTrip ==
    RoundTrip => /\ lastWrite.ret = Len(lastWrite.ubuf)
                 /\ last.ret = Len(lastWrite.ubuf)
                 /\ last.out = lastWrite.ubuf

\* a B that fills the whole buffer, written through one session, has been
\* read back through the other
C6_Witness ==
    /\ RoundTrip
    /\ Len(lastWrite.ubuf) = DEV_MEM_SIZE
    /\ last.sess # lastWrite.sess
    /\ last.out = Pattern(DEV_MEM_SIZE)

\* C7: llseek with SEEK_SET succeeds exactly when 0 <= off <= DEV_MEM_SIZE;
\* then the position becomes off and off is returned; otherwise -EINVAL is
\* returned and the position is what it was.
C7_SeekSet ==
    (last.op = "lseek" /\ last.whence = SEEK_SET)
        => LET ok == 0 <= last.off /\ last.off <= DEV_MEM_SIZE IN
           /\ (last.ret >= 0) <=> ok
           /\ ok => last.ret = last.off /\ f_pos[last.sess] = last.off
           /\ ~ok => last.ret = 0 - EINVAL /\ f_pos[last.sess] = last.pos

\* an absolute seek to the capacity itself from another position succeeded
C7_Witness ==
    /\ last.op = "lseek"
    /\ last.whence = SEEK_SET
    /\ last.off = DEV_MEM_SIZE
    /\ last.pos # DEV_MEM_SIZE
    /\ last.ret = DEV_MEM_SIZE
    /\ f_pos[last.sess] = DEV_MEM_SIZE

\* C8: llseek(0, SEEK_END) succeeds from every position and sets and returns
\* DEV_MEM_SIZE; the read that follows it on that session returns 0 and the
\* write of a non-zero count that follows it returns -ENOSPC.
C8_SeekEnd ==
    /\ (last.op = "lseek" /\ last.whence = SEEK_END /\ last.off = 0)
         => last.ret = DEV_MEM_SIZE /\ f_pos[last.sess] = DEV_MEM_SIZE
    /\ (last.op = "read" /\ last.afterEnd)
         => last.ret = 0 /\ last.out = <<>> /\ f_pos[last.sess] = DEV_MEM_SIZE
    /\ (last.op = "write" /\ last.afterEnd /\ last.count > 0)
         => last.ret = 0 - ENOSPC /\ f_pos[last.sess] = DEV_MEM_SIZE

\* a read of a non-zero count right after llseek(0, SEEK_END) found nothing
\* in a buffer that holds data
C8_Witness ==
    /\ last.op = "read"
    /\ last.afterEnd
    /\ last.count > 0
    /\ last.pos = DEV_MEM_SIZE
    /\ last.ret = 0
    /\ \E i \in 1..DEV_MEM_SIZE : device_buffer[i] # 0

C9_Step ==
    (last'.op = "lseek" /\ last'.whence # SEEK_SET)
        => LET known == last'.whence \in {SEEK_CUR, SEEK_END}
               candidate == IF last'.whence = SEEK_CUR
                            THEN last'.pos + last'.off
                            ELSE DEV_MEM_SIZE + last'.off
               fails == ~known \/ candidate < 0 \/ candidate > DEV_MEM_SIZE
           IN
           /\ last'.pos = f_pos[last'.sess]
           /\ fails => /\ last'.ret = 0 - EINVAL
                       /\ f_pos'[last'.sess] = last'.pos
                       /\ device_buffer' = device_buffer
           /\ ~fails => /\ last'.ret = candidate
                        /\ f_pos'[last'.sess] = candidate

\* C9: llseek with SEEK_CUR (candidate = position + off), with SEEK_END
\* (candidate = DEV_MEM_SIZE + off) or with an unknown whence returns -EINVAL
\* when the whence is unknown or the candidate is < 0 or > DEV_MEM_SIZE, and
\* then leaves the position and device_buffer as they were; otherwise the
\* position becomes the candidate.
C9_SeekOther == [][C9_Step]_vars

\* a relative seek from a position inside the buffer was refused because
\* its candidate lies past the capacity
C9_Witness ==
    /\ last.op = "lseek"
    /\ last.whence = SEEK_CUR
    /\ last.pos > 0
    /\ last.pos + last.off > DEV_MEM_SIZE
    /\ last.ret = 0 - EINVAL
    /\ f_pos[last.sess] = last.pos

\* C10: open always succeeds and the session it opens starts at position 0,
\* whatever the positions of the other sessions and the buffer contents.
C10_OpenAtZero ==
    last.op = "open"
        => /\ last.ret = 0
           /\ last.sess \in Open
           /\ f_pos[last.sess] = 0

\* a session was opened while another one stood at a non-zero position over
\* a buffer that holds data
C10_Witness ==
    /\ last.op = "open"
    /\ last.sess \in Open
    /\ \E t \in Open \ {last.sess} : f_pos[t] > 0
    /\ \E i \in 1..DEV_MEM_SIZE : device_buffer[i] # 0

C11_Step ==
    last'.op = "release"
        => /\ last'.ret = 0
           /\ last'.sess \notin DOMAIN f_pos'
           /\ device_buffer' = device_buffer
           /\ \A t \in Open \ {last'.sess} :
                t \in DOMAIN f_pos' /\ f_pos'[t] = f_pos[t]

\* C11: close always succeeds and changes neither device_buffer nor the
\* position of any other open session, however many closes are made and in
\* whatever order.
C11_CloseFrame == [][C11_Step]_vars

\* a session was closed while the other one stood at a non-zero position
\* over a buffer that holds data
C11_Witness ==
    /\ last.op = "release"
    /\ last.sess \notin Open
    /\ \E t \in Open : f_pos[t] > 0
    /\ \E i \in 1..DEV_MEM_SIZE : device_buffer[i] # 0

C12_Step ==
    last'.op \in {"read", "write", "lseek"}
        => \A t \in Open \ {last'.sess} :
             t \in DOMAIN f_pos' /\ f_pos'[t] = f_pos[t]

\* C12: a read, write or seek made on one session changes the position of
\* that session only, never the position of another open session.
C12_PositionsIndependent == [][C12_Step]_vars

\* a call moved its own session while the other session stayed at a
\* different non-zero position
C12_Witness ==
    /\ last.op \in {"read", "write", "lseek"}
    /\ f_pos[last.sess] # last.pos
    /\ \E t \in Open \ {last.sess} : f_pos[t] > 0 /\ f_pos[t] # f_pos[last.sess]

\* C13: when the copy to or from the caller fails in a read or a write, the
\* call returns -EFAULT and the session's position is what it was before.
C13_FaultKeepsPosition ==
    (last.op \in {"read", "write"} /\ last.uncopied # 0)
        => /\ last.ret = 0 - EFAULT
           /\ f_pos[last.sess] = last.pos

\* a write away from position 0 faulted after part of its bytes were copied
C13_Witness ==
    /\ last.op = "write"
    /\ last.pos > 0
    /\ last.uncopied > 0
    /\ last.uncopied < last.n
    /\ last.ret = 0 - EFAULT

\* the errors a handler returns
Errors == {0 - EINVAL, 0 - ENOSPC, 0 - EFAULT}

C14_Step ==
    (last'.op \in {"read", "write", "lseek"} /\ last'.ret \in Errors)
        => /\ device_buffer' = device_buffer
           /\ f_pos' = f_pos

\* C14: after any call that returns -EINVAL, -ENOSPC or -EFAULT, device_buffer
\* and every session's position are what they were before the call; in
\* particular a write that ends in -EFAULT leaves every byte unchanged.
C14_ErrorsChangeNothing == [][C14_Step]_vars

C19_Step ==
    /\ (last'.op = "write" /\ last'.count = 0)
         => /\ last'.ret = 0 - ENOSPC
            /\ device_buffer' = device_buffer
            /\ f_pos' = f_pos
    /\ (last'.op = "read" /\ last'.count = 0)
         => /\ last'.ret = 0
            /\ last'.out = <<>>
            /\ device_buffer' = device_buffer
            /\ f_pos' = f_pos

\* C19: a write of zero bytes at any position, free room or not, returns
\* -ENOSPC and changes nothing; a read of zero bytes at any position returns
\* 0 and changes nothing.
C19_ZeroLength == [][C19_Step]_vars

\* a write of zero bytes was refused at a position that has free room
C19_Witness ==
    /\ last.op = "write"
    /\ last.count = 0
    /\ last.pos > 0
    /\ last.pos < DEV_MEM_SIZE
    /\ last.ret = 0 - ENOSPC

\* C17: a read at a position greater than DEV_MEM_SIZE (a positioned read
\* whose offset the caller supplies) takes the available bytes to be 0 and
\* returns count 0 with no bytes copied.
C17_ReadPastCapacity ==
    (last.op = "pread" /\ last.pos > DEV_MEM_SIZE)
        => /\ last.ret = 0
           /\ last.out = <<>>
           /\ last.uncopied = 0

\* min(a, b) on unsigned 64-bit words given by their signed representatives
U64Min(a, b) == IF U64Gt(a, b) THEN b ELSE a

\* C18: for every position p in 0..DEV_MEM_SIZE and every count a size_t can
\* hold, the count read and write go on with is min(count, DEV_MEM_SIZE - p):
\* the sum p + count does not wrap modulo 2^64 and escape the truncation.
C18_EffectiveCount ==
    (last.op \in {"read", "write"} /\ 0 <= last.pos
        /\ last.pos <= DEV_MEM_SIZE)
        => last.n = U64Min(last.count, DEV_MEM_SIZE - last.pos)

\* the calls of the last load: those recorded since its pcd_driver_init began
LoadEvents == SubSeq(events, init_call.start + 1, Len(events))

IsRegister(call) == Registers(call) # "nothing"
IsUnregister(call) == Unregisters(call) # "nothing"

\* the resources a sequence of calls registers, and those it unregisters,
\* in the order of the calls
Registered(ev) ==
    LET calls == SelectSeq(ev, IsRegister) IN
    [i \in 1..Len(calls) |-> Registers(calls[i])]
Unregistered(ev) ==
    LET calls == SelectSeq(ev, IsUnregister) IN
    [i \in 1..Len(calls) |-> Unregisters(calls[i])]

Reverse(q) == [i \in 1..Len(q) |-> q[Len(q) + 1 - i]]

\* how many of the first k calls of ev register res, minus how many
\* unregister it
Balance(ev, k, res) ==
    Cardinality({i \in 1..k : Registers(ev[i]) = res})
      - Cardinality({i \in 1..k : Unregisters(ev[i]) = res})

Resources == {Registers(InitCalls[i]) : i \in 1..Len(InitCalls)}

\* the resources the kernel holds for the module after the calls ev
Held(ev) == {res \in Resources : Balance(ev, Len(ev), res) > 0}

\* no call of ev registers what is already registered or gives back what is
\* not registered
WellFormed(ev) ==
    \A k \in 1..Len(ev) :
      /\ IsRegister(ev[k]) => Balance(ev, k - 1, Registers(ev[k])) = 0
      /\ IsUnregister(ev[k]) => Balance(ev, k - 1, Unregisters(ev[k])) = 1

\* C15: pcd_driver_init registers in the order device-number region, cdev,
\* class, device; when call k fails it returns that call's error after
\* undoing calls 1..k-1 in reverse order, so that nothing stays registered;
\* when no call fails it returns 0 and all four are held.
C15_InitTransactional ==
    /\ mod_state = "failed" =>
         LET k == init_call.failAt IN
         /\ init_call.ret = init_call.err
         /\ init_call.ret < 0
         /\ LoadEvents = SubSeq(InitCalls, 1, k - 1)
                           \o SelectSeq(LoadEvents, IsUnregister)
         /\ Unregistered(LoadEvents) = Reverse(Registered(LoadEvents))
         /\ WellFormed(events)
         /\ Held(events) = {}
    /\ mod_state = "loaded" =>
         /\ init_call.ret = 0
         /\ LoadEvents = InitCalls
         /\ WellFormed(events)
         /\ Held(events) = Resources

\* a load failed at device_create, the last registration, on a second load
C15_Witness ==
    /\ mod_state = "failed"
    /\ init_call.failAt = Len(InitCalls)
    /\ loads > 1
    /\ Len(Registered(LoadEvents)) = Len(InitCalls) - 1
    /\ Held(events) = {}

\* C20: pcd_driver_cleanup after a successful pcd_driver_init gives back
\* every registered resource exactly once, in the reverse of the order of
\* registration (device, class, cdev, region); afterwards nothing is
\* registered and nothing was given back that was not registered.
C20_CleanupReverse ==
    mod_state = "removed" =>
        /\ Registered(LoadEvents) = [i \in 1..Len(InitCalls) |->
                                       Registers(InitCalls[i])]
        /\ Unregistered(LoadEvents) = Reverse(Registered(LoadEvents))
        /\ LoadEvents = InitCalls \o SelectSeq(LoadEvents, IsUnregister)
        /\ WellFormed(events)
        /\ Held(events) = {}

\* the module was loaded and removed
C20_Witness ==
    /\ mod_state = "removed"
    /\ init_call.ret = 0
    /\ Len(LoadEvents) = 2 * Len(InitCalls)
    /\ Held(events) = {}

----------------------------------------------------------------------------
\* C16: pcd_read and pcd_write take no lock.  A read is sure to return its
\* range as the buffer holds it, and a write to leave its range holding its
\* data, only when no store of another call landed in that range while the
\* call was inside its copy; a read that a write overlaps can return bytes
\* from before the write mixed with bytes of the write.
C16_Step ==
    \A s \in DOMAIN copying :
      (s \notin DOMAIN copying' /\ ~copying[s].raced) =>
        IF copying[s].op = "read"
        THEN /\ last'.out = Slice(device_buffer', copying[s].pos,
                                  copying[s].pos + copying[s].steps)
             /\ Len(last'.out) = Min(copying[s].n, copying[s].room)
        ELSE Slice(device_buffer', copying[s].pos,
                   copying[s].pos + copying[s].n)
               = WriteData(copying[s].ubuf, copying[s].n)

C16_NoMutualExclusion == [][C16_Step]_vars

\* a torn read: nothing is in flight, the last write stored all of its data
\* and the buffer holds it, yet the read of the same range that finished
\* after it returned the write's first byte together with bytes from
\* before the write
C16_Witness ==
    /\ copying = << >>
    /\ last.op = "read"
    /\ lastWrite.op = "write"
    /\ last.sess # lastWrite.sess
    /\ last.pos = lastWrite.pos
    /\ last.ret = lastWrite.ret
    /\ last.ret > 1
    /\ Slice(device_buffer, last.pos, last.pos + last.ret) = lastWrite.ubuf
    /\ last.out # lastWrite.ubuf
    /\ last.out[1] = lastWrite.ubuf[1]
    /\ \A k \in 1..last.ret : last.out[k] \in {0, lastWrite.ubuf[k]}

============================================================================
